---- MODULE Spec2Model ----
(***************************************************************************)
(* The BB84 notebook (src/2.1_BB84_Protocol.ipynb) as a state machine.     *)
(* The notebook is a linear script of code cells; each cell is one action  *)
(* and pc names the cell that runs next.  Python lists are sequences, so   *)
(* Python index i is position i + 1 here.                                  *)
(*                                                                         *)
(* The circuit is simulated exactly.  No gate of the notebook acts on two  *)
(* qubits, so the register stays a product state and every qubit is kept   *)
(* as the pair of integer amplitudes (a, b) with the exponent k of         *)
(*     (a|0> + b|1>) / sqrt(2)^k.                                          *)
(***************************************************************************)
EXTENDS Integers, Sequences, FiniteSets

VARIABLES num_bits, qubits, alice_key, alice_bases, alice_cirquit,
          bob_bases, bob_circuit, bb84_circuit, bob_key,
          final_alice_key, final_bob_key, message, error, pc,
          previous

vars == << num_bits, qubits, alice_key, alice_bases, alice_cirquit,
           bob_bases, bob_circuit, bb84_circuit, bob_key,
           final_alice_key, final_bob_key, message, error, pc,
           previous >>

(* ------------------------------ bounds -------------------------------- *)

\* Every list of bits and bases is enumerated for num_bits up to MaxBits.
MaxBits == 3

\* num_bits ranges down to -MaxNeg.
MaxNeg == 1

\* A notebook that is run a second time has num_bits up to MaxRerunBits.
MaxRerunBits == 2

\* The value the notebook assigns to num_bits.
DefaultNumBits == 10

(* ----------------- the run recorded in the notebook ------------------- *)

Recorded_alice_key == << 0, 0, 0, 1, 0, 0, 0, 1, 0, 1 >>

Recorded_alice_bases == << "X", "Z", "X", "Z", "Z", "Z", "X", "Z", "X", "Z" >>

Recorded_bob_bases == << "X", "Z", "X", "X", "Z", "X", "X", "Z", "Z", "Z" >>

(* ------------------------------ Step 0 -------------------------------- *)

encode_gates_Swapped(bit) == IF bit = 0 THEN "X" ELSE "I"

encode_gates(bit) == IF bit = 0 THEN "I" ELSE "X"

basis_gates_NoHadamard(basis) == "I"

basis_gates(basis) == IF basis = "Z" THEN "I" ELSE "H"

\* cirq.NamedQubit.range(n, prefix='q'): the qubits q0 .. q(n-1), here 1 .. n;
\* empty when n <= 0.
NamedQubit_range(n) == [i \in 1..n |-> i]

NumBitsValues == ((0 - MaxNeg)..MaxBits) \cup {DefaultNumBits}

(* --------------------------- random.choices --------------------------- *)

\* choices(population, k=k): every list of k elements of population; the empty
\* list when k <= 0.
choices(population, k) == [1..k -> population]

\* Beyond MaxBits only the draw the notebook recorded is followed.
Draws(population, k, recorded) ==
    IF k <= MaxBits THEN choices(population, k) ELSE {recorded}

(* ------------------------- circuit construction ----------------------- *)

\* One iteration of Alice's loop: the encode gate, then the basis gate.
AliceOps_BasisFirst(key, bases, qs, bit) ==
    << [gate |-> basis_gates(bases[bit]), qubit |-> qs[bit]],
       [gate |-> encode_gates(key[bit]), qubit |-> qs[bit]] >>

AliceOps(key, bases, qs, bit) ==
    << [gate |-> encode_gates(key[bit]), qubit |-> qs[bit]],
       [gate |-> basis_gates(bases[bit]), qubit |-> qs[bit]] >>

BobOps_NoBasisGate(bases, qs, bit) ==
    << [gate |-> "I", qubit |-> qs[bit]] >>

\* One iteration of Bob's loop: his basis gate.
BobOps(bases, qs, bit) ==
    << [gate |-> basis_gates(bases[bit]), qubit |-> qs[bit]] >>

RECURSIVE AliceLoop(_, _, _, _, _)
AliceLoop(bit, n, key, bases, qs) ==
    IF bit > n THEN << >>
    ELSE AliceOps(key, bases, qs, bit) \o AliceLoop(bit + 1, n, key, bases, qs)

RECURSIVE BobLoop(_, _, _, _)
BobLoop(bit, n, bases, qs) ==
    IF bit > n THEN << >>
    ELSE BobOps(bases, qs, bit) \o BobLoop(bit + 1, n, bases, qs)

\* cirq.measure(qubits, key='bob_key')
MeasureOp(qs) == [gate |-> "measure", qubits |-> qs, key |-> "bob_key"]

(* ----------------------------- simulation ----------------------------- *)

Ket0 == [a |-> 1, b |-> 0, k |-> 0]

PauliX(s) == [a |-> s.b, b |-> s.a, k |-> s.k]

Hadamard(s) == [a |-> s.a + s.b, b |-> s.a - s.b, k |-> s.k + 1]

ApplyGate(g, s) ==
    CASE g = "I" -> s
      [] g = "X" -> PauliX(s)
      [] g = "H" -> Hadamard(s)

\* The gates of a circuit applied in order to the register; the measurement
\* operation leaves the amplitudes to Sample.
RECURSIVE RunGates(_, _)
RunGates(ops, reg) ==
    IF ops = << >> THEN reg
    ELSE IF Head(ops).gate = "measure" THEN RunGates(Tail(ops), reg)
    ELSE RunGates(Tail(ops),
                  [reg EXCEPT ![Head(ops).qubit] = ApplyGate(Head(ops).gate, @)])

FinalRegister(circuit, qs) == RunGates(circuit, [q \in DOMAIN qs |-> Ket0])

\* The bits a computational-basis measurement of one qubit can give: those
\* whose amplitude is not zero.
Outcomes(s) == {bit \in {0, 1} : IF bit = 0 THEN s.a # 0 ELSE s.b # 0}

\* sim.run(circuit).measurements['bob_key'][0]: one sample of all qubits.
Samples(circuit, qs) ==
    {m \in [DOMAIN qs -> {0, 1}] :
        \A q \in DOMAIN qs : m[q] \in Outcomes(FinalRegister(circuit, qs)[q])}

(* ------------------------------- Step 8 ------------------------------- *)

BasesMatch_Differ(a, b) == a # b

BasesMatch(a, b) == a = b

append_front(list, x) == << x >> \o list

append(list, x) == Append(list, x)

\* The sifting loop from iteration bit on; fa and fb are the lists so far.
RECURSIVE SiftLoop(_, _, _, _, _, _, _, _)
SiftLoop(bit, n, akey, bkey, abases, bbases, fa, fb) ==
    IF bit > n THEN << fa, fb >>
    ELSE IF BasesMatch(abases[bit], bbases[bit])
         THEN SiftLoop(bit + 1, n, akey, bkey, abases, bbases,
                       append(fa, akey[bit]), append(fb, bkey[bit]))
         ELSE SiftLoop(bit + 1, n, akey, bkey, abases, bbases, fa, fb)

(* ------------------------------- Step 9 ------------------------------- *)

SliceFrom1_DropLast(list) == SubSeq(list, 1, Len(list) - 1)

\* list[1:]
SliceFrom1(list) == SubSeq(list, 2, Len(list))

SecureMsg == "We can use our keys!"

EveMsg == "Eve was lisening. We need to use a different channel!"

(* ------------------------------ actions ------------------------------- *)

\* previous holds what an earlier run of the notebook printed, once the
\* notebook has been run again.
NoRun ==
    [ran |-> FALSE, alice_key |-> << >>, alice_bases |-> << >>,
     bob_bases |-> << >>, bob_key |-> << >>, message |-> "", error |-> ""]

Init ==
    /\ num_bits \in NumBitsValues
    /\ qubits = << >>
    /\ alice_key = << >>
    /\ alice_bases = << >>
    /\ alice_cirquit = << >>
    /\ bob_bases = << >>
    /\ bob_circuit = << >>
    /\ bb84_circuit = << >>
    /\ bob_key = << >>
    /\ final_alice_key = << >>
    /\ final_bob_key = << >>
    /\ message = ""
    /\ error = ""
    /\ pc = "Step0"
    /\ previous = NoRun

Step0 ==
    /\ pc = "Step0"
    /\ UNCHANGED previous
    /\ qubits' = NamedQubit_range(num_bits)
    /\ pc' = "Step1"
    /\ UNCHANGED << num_bits, alice_key, alice_bases, alice_cirquit, bob_bases,
                    bob_circuit, bb84_circuit, bob_key, final_alice_key,
                    final_bob_key, message, error >>

Step1 ==
    /\ pc = "Step1"
    /\ UNCHANGED previous
    /\ alice_key' \in Draws({0, 1}, num_bits, Recorded_alice_key)
    /\ pc' = "Step2"
    /\ UNCHANGED << num_bits, qubits, alice_bases, alice_cirquit, bob_bases,
                    bob_circuit, bb84_circuit, bob_key, final_alice_key,
                    final_bob_key, message, error >>

Step2 ==
    /\ pc = "Step2"
    /\ UNCHANGED previous
    /\ alice_bases' \in Draws({"X", "Z"}, num_bits, Recorded_alice_bases)
    /\ pc' = "Step3"
    /\ UNCHANGED << num_bits, qubits, alice_key, alice_cirquit, bob_bases,
                    bob_circuit, bb84_circuit, bob_key, final_alice_key,
                    final_bob_key, message, error >>

Step3 ==
    /\ pc = "Step3"
    /\ UNCHANGED previous
    /\ alice_cirquit' = AliceLoop(1, num_bits, alice_key, alice_bases, qubits)
    /\ pc' = "Step4"
    /\ UNCHANGED << num_bits, qubits, alice_key, alice_bases, bob_bases,
                    bob_circuit, bb84_circuit, bob_key, final_alice_key,
                    final_bob_key, message, error >>

Step4 ==
    /\ pc = "Step4"
    /\ UNCHANGED previous
    /\ bob_bases' \in Draws({"X", "Z"}, num_bits, Recorded_bob_bases)
    /\ pc' = "Step5"
    /\ UNCHANGED << num_bits, qubits, alice_key, alice_bases, alice_cirquit,
                    bob_circuit, bb84_circuit, bob_key, final_alice_key,
                    final_bob_key, message, error >>

Step5 ==
    /\ pc = "Step5"
    /\ UNCHANGED previous
    /\ bob_circuit' = BobLoop(1, num_bits, bob_bases, qubits)
    /\ pc' = "Step6"
    /\ UNCHANGED << num_bits, qubits, alice_key, alice_bases, alice_cirquit,
                    bob_bases, bb84_circuit, bob_key, final_alice_key,
                    final_bob_key, message, error >>

\* cirq.measure of an empty list of qubits raises ValueError ("Measuring an
\* empty set of qubits.").
Step6 ==
    /\ pc = "Step6"
    /\ UNCHANGED previous
    /\ IF Len(qubits) = 0
       THEN /\ error' = "ValueError"
            /\ pc' = "Failed"
            /\ UNCHANGED bob_circuit
       ELSE /\ bob_circuit' = Append(bob_circuit, MeasureOp(qubits))
            /\ pc' = "Step7"
            /\ UNCHANGED error
    /\ UNCHANGED << num_bits, qubits, alice_key, alice_bases, alice_cirquit,
                    bob_bases, bb84_circuit, bob_key, final_alice_key,
                    final_bob_key, message >>

Step7 ==
    /\ pc = "Step7"
    /\ UNCHANGED previous
    /\ bb84_circuit' = alice_cirquit \o bob_circuit
    /\ bob_key' \in Samples(bb84_circuit', qubits)
    /\ pc' = "Step8"
    /\ UNCHANGED << num_bits, qubits, alice_key, alice_bases, alice_cirquit,
                    bob_bases, bob_circuit, final_alice_key, final_bob_key,
                    message, error >>

Step8 ==
    /\ pc = "Step8"
    /\ UNCHANGED previous
    /\ LET sifted == SiftLoop(1, num_bits, alice_key, bob_key, alice_bases,
                              bob_bases, << >>, << >>)
       IN /\ final_alice_key' = sifted[1]
          /\ final_bob_key' = sifted[2]
    /\ pc' = "Step9"
    /\ UNCHANGED << num_bits, qubits, alice_key, alice_bases, alice_cirquit,
                    bob_bases, bob_circuit, bb84_circuit, bob_key, message,
                    error >>

\* final_alice_key[0] on an empty list raises IndexError.
Step9 ==
    /\ pc = "Step9"
    /\ UNCHANGED previous
    /\ IF Len(final_alice_key) = 0 \/ Len(final_bob_key) = 0
       THEN /\ error' = "IndexError"
            /\ pc' = "Failed"
            /\ UNCHANGED << final_alice_key, final_bob_key, message >>
       ELSE IF final_alice_key[1] = final_bob_key[1]
       THEN /\ final_alice_key' = SliceFrom1(final_alice_key)
            /\ final_bob_key' = SliceFrom1(final_bob_key)
            /\ message' = SecureMsg
            /\ pc' = "Done"
            /\ UNCHANGED error
       ELSE /\ message' = EveMsg
            /\ pc' = "Done"
            /\ UNCHANGED << final_alice_key, final_bob_key, error >>
    /\ UNCHANGED << num_bits, qubits, alice_key, alice_bases, alice_cirquit,
                    bob_bases, bob_circuit, bb84_circuit, bob_key >>

Next ==
    \/ Step0
    \/ Step1
    \/ Step2
    \/ Step3
    \/ Step4
    \/ Step5
    \/ Step6
    \/ Step7
    \/ Step8
    \/ Step9

Spec == Init /\ [][Next]_vars

(* --------------------------- a second run ----------------------------- *)

\* What a finished run printed: the cells' print calls.
Printed ==
    [ran |-> TRUE, alice_key |-> alice_key, alice_bases |-> alice_bases,
     bob_bases |-> bob_bases, bob_key |-> bob_key, message |-> message,
     error |-> error]

\* The finished notebook is run again from its first cell, in a fresh kernel
\* and with the same num_bits.  No cell seeds random or passes a seed to
\* cirq.Simulator(), so the second run draws afresh.
Rerun ==
    /\ pc \in {"Done", "Failed"}
    /\ ~previous.ran
    /\ previous' = Printed
    /\ qubits' = << >>
    /\ alice_key' = << >>
    /\ alice_bases' = << >>
    /\ alice_cirquit' = << >>
    /\ bob_bases' = << >>
    /\ bob_circuit' = << >>
    /\ bb84_circuit' = << >>
    /\ bob_key' = << >>
    /\ final_alice_key' = << >>
    /\ final_bob_key' = << >>
    /\ message' = ""
    /\ error' = ""
    /\ pc' = "Step0"
    /\ UNCHANGED num_bits

InitRerun == Init /\ num_bits \in 1..MaxRerunBits

NextRerun ==
    \/ Next
    \/ Rerun

SpecRerun == InitRerun /\ [][NextRerun]_vars

(* ------------------------- the run's outcome -------------------------- *)

\* The result variant a finished run shows: the message Step 9 printed.  No
\* cell prints anything for empty sifted keys.
Result ==
    IF pc # "Done" THEN "none"
    ELSE IF message = SecureMsg THEN "Secure"
    ELSE IF message = EveMsg THEN "Compromised"
    ELSE "none"

\* Bob's key has been measured.
Measured == pc \in {"Step8", "Step9", "Done"} \/ (pc = "Failed" /\ error = "IndexError")

\* The sifted keys are in final_alice_key and final_bob_key, untouched.
Sifted == pc = "Step9"

\* Positions whose bases agree (defined once Bob's bases are drawn).
MatchIdx == {i \in 1..num_bits : alice_bases[i] = bob_bases[i]}

\* The same as Python indices.
MatchIdx0 == {i - 1 : i \in MatchIdx}

\* The k-th smallest element of a set of positions (the claims' notion of a
\* subsequence, stated without the loop).
Kth(idx, k) == CHOOSE i \in idx : Cardinality({j \in idx : j < i}) = k - 1

\* sub is the subsequence of list at the positions idx, in increasing order.
IsSubsequenceAt(sub, list, idx) ==
    /\ Len(sub) = Cardinality(idx)
    /\ \A k \in 1..Len(sub) : sub[k] = list[Kth(idx, k)]

\* The qubit at position i just before the measurement.
BeforeMeasure(i) == FinalRegister(bb84_circuit, qubits)[i]

(* ------------------------------ claims -------------------------------- *)

\* C1: whenever the run ends Secure, final_alice_key equals final_bob_key
\* element by element.
C1_SecureKeysEqual ==
    Result = "Secure" =>
        /\ Len(final_alice_key) = Len(final_bob_key)
        /\ \A k \in 1..Len(final_alice_key) : final_alice_key[k] = final_bob_key[k]

\* A Secure run that keeps a key while Bob measured a wrong bit at a
\* mismatched position.
C1_Witness ==
    /\ Result = "Secure"
    /\ Len(final_alice_key) >= 1
    /\ \E i \in 1..num_bits : bob_key[i] # alice_key[i]

\* C2: at every position where Alice's and Bob's bases agree, Bob's measured
\* bit is Alice's bit.
C2_MatchingBasis ==
    Measured =>
        \A i \in 1..num_bits :
            alice_bases[i] = bob_bases[i] => bob_key[i] = alice_key[i]

\* A measured run with bit 1 sent and read in the X basis (both Hadamards
\* applied), next to a mismatched position.
C2_Witness ==
    /\ Measured
    /\ \E i \in 1..num_bits :
          /\ alice_bases[i] = "X"
          /\ bob_bases[i] = "X"
          /\ alice_key[i] = 1
          /\ bob_key[i] = 1
    /\ \E j \in 1..num_bits : alice_bases[j] # bob_bases[j]

\* C3: a run of num_bits >= 1 in which no bases agree ends with the result
\* Inconclusive, not with an error.
C3_EmptySiftedInconclusive ==
    (num_bits >= 1 /\ pc \in {"Done", "Failed"} /\ MatchIdx = {}) =>
        (pc = "Done" /\ error = "" /\ Result = "Inconclusive")

\* C4: after sifting, the two keys are the subsequences of alice_key and
\* bob_key at the positions where the bases agree, in increasing order.
C4_Sifting ==
    Sifted =>
        /\ IsSubsequenceAt(final_alice_key, alice_key, MatchIdx)
        /\ IsSubsequenceAt(final_bob_key, bob_key, MatchIdx)
        /\ Len(final_alice_key) = Len(final_bob_key)

\* Sifted keys that keep two different bits from around a dropped position
\* whose measured bit is wrong.
C4_Witness ==
    /\ Sifted
    /\ \E i, j, k \in 1..num_bits :
          /\ i < j /\ j < k
          /\ i \in MatchIdx /\ k \in MatchIdx /\ j \notin MatchIdx
          /\ alice_key[i] # alice_key[k]
          /\ bob_key[j] # alice_key[j]

\* C5: at every position where the bases differ, the measurement gives 0 and
\* 1 with probability 1/2 each (squared amplitude a^2 / 2^k = b^2 / 2^k = 1/2),
\* whatever Alice's bit is.
C5_MismatchedUniform ==
    Measured =>
        \A i \in 1..num_bits :
            alice_bases[i] # bob_bases[i] =>
                /\ 2 * BeforeMeasure(i).a * BeforeMeasure(i).a = 2 ^ BeforeMeasure(i).k
                /\ 2 * BeforeMeasure(i).b * BeforeMeasure(i).b = 2 ^ BeforeMeasure(i).k
                /\ Outcomes(BeforeMeasure(i)) = {0, 1}

\* Two mismatched positions carrying the same bit of Alice and measured
\* differently by Bob.
C5_Witness ==
    /\ Measured
    /\ \E i, j \in 1..num_bits :
          /\ alice_bases[i] # bob_bases[i]
          /\ alice_bases[j] # bob_bases[j]
          /\ alice_key[i] = alice_key[j]
          /\ bob_key[i] # bob_key[j]

\* C7: when the sifted keys are not empty and their first bits agree, Step 9
\* removes exactly the first element of each and keeps the rest in order.
C7_FirstBitConsumed ==
    [][(/\ pc = "Step9"
        /\ pc' # pc
        /\ Len(final_alice_key) >= 1
        /\ Len(final_bob_key) >= 1
        /\ final_alice_key[1] = final_bob_key[1])
       => (/\ pc' = "Done"
           /\ message' = SecureMsg
           /\ Len(final_alice_key') = Len(final_alice_key) - 1
           /\ Len(final_bob_key') = Len(final_bob_key) - 1
           /\ \A k \in 1..Len(final_alice_key') :
                 /\ final_alice_key'[k] = final_alice_key[k + 1]
                 /\ final_bob_key'[k] = final_bob_key[k + 1])]_vars

\* A Secure run whose single sifted bit was consumed: the final keys are empty.
C7_Witness ==
    /\ Result = "Secure"
    /\ Cardinality(MatchIdx) = 1
    /\ final_alice_key = << >>
    /\ final_bob_key = << >>

\* The notebook's recorded draws.
RecordedRun ==
    /\ num_bits = DefaultNumBits
    /\ alice_key = Recorded_alice_key
    /\ alice_bases = Recorded_alice_bases
    /\ bob_bases = Recorded_bob_bases

\* C8 as stated: matching indices {0,1,2,4,7,8,9}, sifted_alice
\* [0,0,0,0,1,0,1], final keys [0,0,0,1,0,1].
C8_Original ==
    /\ (RecordedRun /\ Sifted) =>
          /\ MatchIdx0 = {0, 1, 2, 4, 7, 8, 9}
          /\ final_alice_key = << 0, 0, 0, 0, 1, 0, 1 >>
    /\ (RecordedRun /\ pc \in {"Done", "Failed"}) =>
          /\ Result = "Secure"
          /\ final_alice_key = << 0, 0, 0, 1, 0, 1 >>
          /\ final_bob_key = final_alice_key

\* C8 amended: for the recorded draws the matching indices are
\* {0,1,2,4,6,7,9}, sifted_alice is [0,0,0,0,0,1,1], and the run ends Secure
\* with final_alice_key = final_bob_key = [0,0,0,0,1,1].
C8_Example ==
    /\ (RecordedRun /\ Sifted) =>
          /\ MatchIdx0 = {0, 1, 2, 4, 6, 7, 9}
          /\ final_alice_key = << 0, 0, 0, 0, 0, 1, 1 >>
          /\ final_bob_key = final_alice_key
    /\ (RecordedRun /\ pc \in {"Done", "Failed"}) =>
          /\ Result = "Secure"
          /\ final_alice_key = << 0, 0, 0, 0, 1, 1 >>
          /\ final_bob_key = final_alice_key

\* The recorded run, finished, with Bob's key as the notebook printed it.
C8_Witness ==
    /\ RecordedRun
    /\ pc = "Done"
    /\ bob_key = << 0, 0, 0, 1, 0, 1, 0, 1, 1, 1 >>

\* C9: with num_bits <= 0 the run is rejected with InvalidArgument before any
\* work: no cell from the bit draw (Step 1) on has run, and the only failure
\* is InvalidArgument.
C9_RejectsNonPositive ==
    num_bits <= 0 =>
        /\ pc \in {"Step0", "Step1", "Failed"}
        /\ pc = "Failed" => error = "InvalidArgument"

\* C10: a run of num_bits >= 1 never fails, and when it has finished it shows
\* one of Secure, Compromised, Inconclusive.
C10_Total ==
    num_bits >= 1 =>
        /\ pc # "Failed"
        /\ error = ""
        /\ pc = "Done" => Result \in {"Secure", "Compromised", "Inconclusive"}

\* C12: the Compromised outcome is unreachable: whenever the sifted keys are
\* not empty their first bits agree, the "Eve" message is never printed, and
\* every finished run is Secure or had empty sifted keys.
C12_NeverCompromised ==
    /\ message # EveMsg
    /\ Result # "Compromised"
    /\ (Sifted /\ Len(final_alice_key) >= 1) =>
          final_alice_key[1] = final_bob_key[1]
    /\ (Measured /\ pc \in {"Done", "Failed"}) =>
          \/ Result = "Secure"
          \/ (MatchIdx = {} /\ pc = "Failed" /\ error = "IndexError")

\* Sifted keys about to be checked, not empty, in a run where the X basis was
\* used on both sides for the first sifted bit and Bob measured a wrong bit at
\* some mismatched position.
C12_Witness ==
    /\ Sifted
    /\ Len(final_alice_key) >= 1
    /\ alice_bases[Kth(MatchIdx, 1)] = "X"
    /\ \E j \in 1..num_bits : j \notin MatchIdx /\ bob_key[j] # alice_key[j]

====
